---- MODULE Spec2Model ----
(***************************************************************************)
(* Module A ("Orcamentacao Inteligente") of app.py: the quote-derivation   *)
(* pipeline.  One run of the script is one step of the model: the upload   *)
(* widget holds a file (or none), the script classifies it by extension,   *)
(* matches PDF text against the hard-coded cases or measures a STEP/STP    *)
(* solid, fills quote_data and, when quote_data is non-empty, prices it    *)
(* for the quantity in the number_input widget.                            *)
(*                                                                         *)
(* Strings the code inspects (file names, document text, case names) are   *)
(* sequences of one-character strings, so that split('.'), lower() and     *)
(* the `in` substring test are computed as Python computes them.           *)
(*                                                                         *)
(* Numbers are exact decimal fixed point:                                  *)
(*   raw volume          mm^3                                              *)
(*   "Volume (cm3)"      1/100 cm^3  (the two decimals of f"{..:.2f}")     *)
(*   "Weight"            mg          (1e-6 kg)                             *)
(*   "Price", price_val  1/1000 EUR                                        *)
(*   final_price         1/10000 EUR                                       *)
(***************************************************************************)
EXTENDS Integers, Sequences, FiniteSets, TLC

(* ---------------------------- bounds ---------------------------------- *)

\* Largest value the user types into the "Quantity" number_input.
MaxQty == 12

\* Largest number of left-over temporary files the model follows.
MaxTmpFiles == 2

(* ------------------------ character strings --------------------------- *)

UpperLetters ==
    <<"A", "B", "C", "D", "E", "F", "G", "H", "I", "J", "K", "L", "M",
      "N", "O", "P", "Q", "R", "S", "T", "U", "V", "W", "X", "Y", "Z">>

LowerLetters ==
    <<"a", "b", "c", "d", "e", "f", "g", "h", "i", "j", "k", "l", "m",
      "n", "o", "p", "q", "r", "s", "t", "u", "v", "w", "x", "y", "z">>

\* str.lower() on one character.
LowerChar(c) ==
    IF \E i \in 1..Len(UpperLetters) : UpperLetters[i] = c
    THEN LowerLetters[CHOOSE i \in 1..Len(UpperLetters) : UpperLetters[i] = c]
    ELSE c

\* str.upper() on one character (used to build upper-case documents).
UpperChar(c) ==
    IF \E i \in 1..Len(LowerLetters) : LowerLetters[i] = c
    THEN UpperLetters[CHOOSE i \in 1..Len(LowerLetters) : LowerLetters[i] = c]
    ELSE c

\* str.lower()
Lower(s) == [i \in 1..Len(s) |-> LowerChar(s[i])]

\* str.upper()
Upper(s) == [i \in 1..Len(s) |-> UpperChar(s[i])]

\* Python's `needle in haystack` for strings: exact, case-sensitive
\* substring containment.
Contains(needle, haystack) ==
    \E i \in 1..(Len(haystack) - Len(needle) + 1) :
        \A k \in 1..Len(needle) : haystack[i + k - 1] = needle[k]

\* name.split('.')[-1]: the characters after the last '.', the whole name
\* when it has no '.'.
LastDotPart(name) ==
    LET dots == {i \in 1..Len(name) : name[i] = "."}
    IN  IF dots = {} THEN name
        ELSE LET last == CHOOSE i \in dots : \A j \in dots : j <= i
             IN  SubSeq(name, last + 1, Len(name))

\* file_ext = uploaded_file.name.split('.')[-1].lower()
file_ext(name) == Lower(LastDotPart(name))

ext_pdf == <<"p", "d", "f">>
ext_step == <<"s", "t", "e", "p">>
ext_stp == <<"s", "t", "p">>
ext_stl == <<"s", "t", "l">>

\* type=['pdf', 'step', 'stp', 'stl'] of st.file_uploader: the widget only
\* hands over files whose extension is in this list.
AcceptedTypes == {ext_pdf, ext_step, ext_stp, ext_stl}

(* ------------------------- the hard-coded cases ----------------------- *)

Name1 ==
    <<"C", "a", "l", "c", "a", "d", "o", "r", " ", "T", "e", "m", "p", "e",
      "r", "a", "d", "o", " ", "I", "n", "t", "e", "r", "i", "o", "r">>

Name2 ==
    <<"E", "s", "t", "r", "u", "t", "u", "r", "a", " ", "p", "a", "r", "a",
      " ", "e", "m", "b", "u", "t", "i", "r", " ", "c", "a", "l", "c", "a",
      "d", "o", "r", " ", "i", "n", "t", "e", "r", "i", "o", "r">>

Name3 ==
    <<"E", "s", "t", "r", "u", "t", "u", "r", "a", " ", "p", "a", "r", "a",
      " ", "e", "m", "b", "u", "t", "i", "r", " ", "c", "a", "l", "c", "a",
      "d", "o", "r", " ", "e", "x", "t", "e", "r", "i", "o", "r">>

CasePrefix1 == <<"C", "a", "s", "e", " ", "1", ":", " ">>
CasePrefix2 == <<"C", "a", "s", "e", " ", "2", ":", " ">>
CasePrefix3 == <<"C", "a", "s", "e", " ", "3", ":", " ">>

\* The names tested by the if/elif chain, in the order it tests them.
CaseNames == <<Name1, Name2, Name3>>

\* The dict assigned to quote_data by branch i of the chain (the c-cedilla
\* of the material labels is written as a plain c).
CaseQuote(i) ==
    CASE i = 1 -> [Ref |-> CasePrefix1 \o Name1,
                   Material |-> "Aco 1.2379 (D2)",
                   Weight |-> 1642000, Price |-> 309520]
      [] i = 2 -> [Ref |-> CasePrefix2 \o Name2,
                   Material |-> "Aco 1.1730 (C45)",
                   Weight |-> 3796000, Price |-> 308880]
      [] i = 3 -> [Ref |-> CasePrefix3 \o Name3,
                   Material |-> "Aco 1.1730 (C45)",
                   Weight |-> 7782000, Price |-> 361920]

\* quote_data = {}
EmptyQuote == << >>

\* A plausible slip: case 2 keyed on the common stem of cases 2 and 3.
CheckCases_stem(text_content) ==
    IF Contains(Name1, text_content) THEN CaseQuote(1)
    ELSE IF Contains(SubSeq(Name2, 1, 31), text_content) THEN CaseQuote(2)
    ELSE IF Contains(Name3, text_content) THEN CaseQuote(3)
    ELSE EmptyQuote

\* "Check Cases": the value of quote_data after the if/elif chain, which
\* starts from the empty dict.
CheckCases(text_content) ==
    IF Contains(Name1, text_content) THEN CaseQuote(1)
    ELSE IF Contains(Name2, text_content) THEN CaseQuote(2)
    ELSE IF Contains(Name3, text_content) THEN CaseQuote(3)
    ELSE EmptyQuote

\* text_content: the concatenation of the text of every page.
RECURSIVE PagesText(_)
PagesText(pages) ==
    IF pages = << >> THEN << >>
    ELSE Head(pages) \o PagesText(Tail(pages))

(* ------------------------------ pricing ------------------------------- *)

\* The divisions below are exact for the raw volumes of the model, which
\* are multiples of 40000 mm^3.

\* mass_kg = vol * density_kg_mm3 with density 7.85e-6 kg/mm^3, in mg.
mass_kg(vol) == (vol * 785) \div 100

\* vol_cm3 = vol / 1000.0, in 1/100 cm^3.
vol_cm3(vol) == vol \div 10

\* price = (mass_kg * 4.5) + (vol_cm3 * 0.05) + 150.0, in 1/1000 EUR.
price(vol) ==
    (mass_kg(vol) * 45) \div 10000 + (vol_cm3(vol) * 5) \div 10 + 150000

\* A plausible slip: the discount threshold typed as 5.
final_price_of_low(price_val, q) ==
    IF q > 5 THEN price_val * q * 9 ELSE price_val * q * 10

\* A plausible slip: the discount test written as qty >= 10.
final_price_of_ge(price_val, q) ==
    IF q >= 10 THEN price_val * q * 9 ELSE price_val * q * 10

\* final_price = price_val * qty; if qty > 10: final_price *= 0.90
\* (in 1/10000 EUR, so that the factor 0.90 is exact).
final_price_of(price_val, q) ==
    IF q > 10 THEN price_val * q * 9 ELSE price_val * q * 10

(* ------------------------------ uploads ------------------------------- *)

\* What the upload widget holds: the declared file name and what the
\* external collaborators make of the bytes.  For a PDF: whether
\* pdfplumber.open or page.extract_text raises (pdf_fault) and the text of
\* each page.  For a 3D model: the step of the try block that raises
\* (fault) and the raw Volume() of the imported solid.
UploadedFile(name, pdf_fault, pages, fault, vol) ==
    [name |-> name, pdf_fault |-> pdf_fault, pages |-> pages,
     fault |-> fault, vol |-> vol]

\* uploaded_file is None: nothing in the widget.
NoFile == UploadedFile(<< >>, "none", << >>, "none", 0)

file_a == <<"a", ".", "p", "d", "f">>
file_b == <<"p", "l", "a", "n", ".", "v", "2", ".", "P", "D", "F">>
file_c == <<"c", ".", "s", "t", "e", "p">>
file_d == <<"d", ".", "S", "T", "P">>
file_e == <<"e", ".", "s", "t", "l">>
file_f == <<"f", ".", "d", "w", "g">>

Heading == <<"D", "e", "s", "e", "n", "h", "o", ":", " ">>
Trailer == <<" ", "r", "e", "v", ".", "2">>
OtherPart == <<"P", "u", "n", "c", "h", " ", "p", "l", "a", "t", "e">>

\* The documents the model uploads, as lists of page texts: every case
\* name as written, in upper case and in lower case, bare and inside other
\* text; a name split over two pages; two names in one document; the
\* common stem of cases 2 and 3; an unrelated part; no text at all.
Documents ==
    LET names == {Name1, Name2, Name3}
    IN  {<<n>> : n \in names}
        \cup {<<Heading \o n \o Trailer>> : n \in names}
        \cup {<<Heading \o Upper(n) \o Trailer>> : n \in names}
        \cup {<<Heading \o Lower(n) \o Trailer>> : n \in names}
        \cup { <<SubSeq(Name1, 1, 18), SubSeq(Name1, 19, Len(Name1))>>,
               <<Heading \o Name3, Name1 \o Trailer>>,
               <<Heading \o SubSeq(Name2, 1, 31) \o Trailer>>,
               <<OtherPart>>,
               << >> }

\* Raw volumes the importer reports (mm^3); negative for a solid whose
\* faces are wound inwards.
RawVolumes == {-2000000, -40000, 0, 40000}

PdfFaults == {"open", "extract"}

\* Steps of the STEP/STP try block that can raise, in program order.
StepFaults == {"write", "import", "volume", "tessellate", "render"}

PdfUploads ==
    {UploadedFile(n, "none", d, "none", 0) :
        n \in {file_a, file_b}, d \in Documents}
    \cup {UploadedFile(file_a, f, <<Name1>>, "none", 0) : f \in PdfFaults}

SolidUploads ==
    {UploadedFile(n, "none", << >>, f, v) :
        n \in {file_c, file_d}, f \in StepFaults \cup {"none"},
        v \in RawVolumes}
    \cup {UploadedFile(n, "none", << >>, "none", 40000) :
            n \in {file_e, file_f}}

\* Files the user may drop on the widget.
Files == PdfUploads \cup SolidUploads

(* ------------------------------ one run ------------------------------- *)

\* Outcome of a branch of the upload zone.
Outcome(quote, msgs, raised, left, route) ==
    [quote |-> quote, msgs |-> msgs, raised |-> raised, left |-> left,
     route |-> route]

\* A plausible slip: quote_data initialised once, outside the run.
InitialQuote_keep(previous) == previous

\* quote_data = {} at the top of the upload zone, whatever an earlier run
\* left in it.
InitialQuote(previous) == EmptyQuote

\* The status shown after the chain: `if quote_data: ... else: warning`.
MatchStatus(quote) ==
    IF quote # EmptyQuote THEN "Reconhecimento Historico"
    ELSE "No historical match found."

\* PDF LOGIC.  There is no try block: an exception of pdfplumber.open or
\* extract_text leaves the script.
PdfLogic(file, quote0) ==
    IF file.pdf_fault # "none"
    THEN Outcome(quote0, {"Parsing PDF Document..."}, TRUE, 0, "text")
    ELSE LET text_content == PagesText(file.pages)
             quote == CheckCases(text_content)
         IN  Outcome(quote, {"Parsing PDF Document...", MatchStatus(quote)},
                     FALSE, 0, "text")

\* The dict assigned to quote_data after Volume() returned; Volume_cm3 is
\* the key "Volume (cm3)".
StepQuote(file) ==
    [Ref |-> file.name,
     Material |-> "Generic Steel (7.85g/cc)",
     Volume_cm3 |-> vol_cm3(file.vol),
     Weight |-> mass_kg(file.vol),
     Price |-> price(file.vol)]

\* STEP/STP LOGIC.  The temporary file is created with delete=False and
\* removed by the os.unlink at the end of the try block only; quote_data
\* is assigned before the visualization.
StepLogic(file, quote0, kernel) ==
    IF ~kernel
    THEN Outcome(quote0,
                 {"CadQuery library not installed. Cannot process 3D model."},
                 FALSE, 0, "geometry")
    ELSE IF file.fault \in {"write", "import", "volume"}
    THEN Outcome(quote0, {"Error processing STEP file"}, FALSE, 1,
                 "geometry")
    ELSE IF file.fault \in {"tessellate", "render"}
    THEN Outcome(StepQuote(file), {"Error processing STEP file"}, FALSE, 1,
                 "geometry")
    ELSE Outcome(StepQuote(file), {"Geometry Visualization"}, FALSE, 0,
                 "geometry")

\* The upload zone: dispatch on file_ext.
UploadZone(file, previous, kernel) ==
    LET quote0 == InitialQuote(previous)
    IN  IF file = NoFile THEN Outcome(quote0, {}, FALSE, 0, "none")
        ELSE IF file_ext(file.name) = ext_pdf THEN PdfLogic(file, quote0)
        ELSE IF file_ext(file.name) \in {ext_step, ext_stp}
             THEN StepLogic(file, quote0, kernel)
        ELSE Outcome(quote0, {}, FALSE, 0, "none")

VARIABLES
    cq,             \* the CadQuery kernel was imported
    uploaded_file,  \* what the upload widget holds
    qty,            \* value of the "Quantity" number_input
    quote_data,     \* the quote record of the last run
    messages,       \* status messages the last run put on the page
    panel,          \* the last run rendered the quote panel
    final_price,    \* PRECO FINAL of the last run (0 when no panel)
    tmp_files,      \* temporary files left on disk
    unhandled,      \* the last run ended in an uncaught exception
    route           \* branch of the upload zone the last run entered

vars == <<cq, uploaded_file, qty, quote_data, messages, panel, final_price,
          tmp_files, unhandled, route>>

\* One run of the script with `file` in the widget and `q` in the
\* quantity input: the upload zone, then the quote panel when quote_data
\* is non-empty (number_input has min_value=1, value=1 and is not rendered,
\* so falls back to 1, when there is no panel).
Rerun(file, q) ==
    \E out \in {UploadZone(file, quote_data, cq)} :
        LET shown == ~out.raised /\ out.quote # EmptyQuote
        IN  /\ tmp_files + out.left <= MaxTmpFiles
            /\ uploaded_file' = file
            /\ quote_data' = out.quote
            /\ unhandled' = out.raised
            /\ route' = out.route
            /\ tmp_files' = tmp_files + out.left
            /\ panel' = shown
            /\ qty' = IF shown THEN q ELSE 1
            /\ final_price' = IF shown
                              THEN final_price_of(out.quote.Price, q)
                              ELSE 0
            /\ messages' = out.msgs \cup
                           (IF shown /\ q > 10
                            THEN {"Disount Applied: 10%"} ELSE {})
            /\ UNCHANGED cq

Init ==
    /\ cq \in BOOLEAN
    /\ uploaded_file = NoFile
    /\ qty = 1
    /\ quote_data = EmptyQuote
    /\ messages = {}
    /\ panel = FALSE
    /\ final_price = 0
    /\ tmp_files = 0
    /\ unhandled = FALSE
    /\ route = "none"

\* The user drops a file the widget accepts.
Upload ==
    \E f \in Files :
        /\ file_ext(f.name) \in AcceptedTypes
        /\ Rerun(f, qty)

\* The user edits the quantity of the displayed quote.
ChangeQuantity ==
    \E q \in 1..MaxQty :
        /\ panel
        /\ q # qty
        /\ Rerun(uploaded_file, q)

\* The user removes the file from the widget.
RemoveFile ==
    /\ uploaded_file # NoFile
    /\ Rerun(NoFile, qty)

Next == Upload \/ ChangeQuantity \/ RemoveFile

Spec == Init /\ [][Next]_vars

(* ----------------------- vocabulary of the claims ---------------------- *)

HasFile == uploaded_file # NoFile

\* Extension of the file in the widget.
CurrentExt == file_ext(uploaded_file.name)

\* Text of the document in the widget.
CurrentText == PagesText(uploaded_file.pages)

\* Containment in any letter case.
ContainsAnyCase(needle, haystack) == Contains(Lower(needle), Lower(haystack))

CaseIndex == 1..Len(CaseNames)

\* The PDF in the widget was read to the end.
TextExtracted == HasFile /\ route = "text" /\ ~unhandled

\* The current upload ran into a failure of a collaborator.
PdfFailed == HasFile /\ CurrentExt = ext_pdf /\ uploaded_file.pdf_fault # "none"
StepFailed ==
    /\ HasFile
    /\ CurrentExt \in {ext_step, ext_stp}
    /\ cq
    /\ uploaded_file.fault # "none"

Discounted == "Disount Applied: 10%" \in messages

(* -------------------------------- C1 ---------------------------------- *)

\* C1 (as stated): for quantity q >= 1 and unit price u >= 0 the final
\* price is non-negative and the total never falls when the quantity of
\* the displayed quote goes from q to q + 1, the step from 10 to 11
\* included.
C1_TotalNonDecreasing ==
    [][ /\ (panel' /\ quote_data'.Price >= 0) => final_price' >= 0
        /\ ( /\ panel /\ panel'
             /\ uploaded_file' = uploaded_file
             /\ quote_data.Price >= 0
             /\ qty' = qty + 1 )
           => final_price' >= final_price ]_vars

\* C1 (amended): for quantity q >= 1 and unit price u >= 0 the final price
\* is non-negative and the total does not fall from q to q + 1 for every
\* q other than 10; from 10 to 11 it goes from 10 u to 9.9 u, which is
\* lower when u > 0.
C1_TotalNonDecreasingExceptAtThreshold ==
    [][ /\ (panel' /\ quote_data'.Price >= 0) => final_price' >= 0
        /\ ( /\ panel /\ panel'
             /\ uploaded_file' = uploaded_file
             /\ quote_data.Price >= 0
             /\ qty' = qty + 1 )
           => IF qty = 10
              THEN /\ final_price = quote_data.Price * 100
                   /\ final_price' = quote_data.Price * 99
                   /\ (quote_data.Price > 0 => final_price' < final_price)
              ELSE final_price' >= final_price ]_vars

\* A displayed quote with a positive unit price, priced for 12 pieces.
C1_Witness ==
    /\ panel
    /\ quote_data.Price > 0
    /\ qty = 12
    /\ final_price >= final_price_of(quote_data.Price, 11)

(* -------------------------------- C2 ---------------------------------- *)

\* C2: the volume and the weight of a quote computed from a STEP/STP solid
\* are >= 0 whatever the sign of the raw volume.
C2_VolumeNonNegative ==
    "Volume_cm3" \in DOMAIN quote_data =>
        /\ quote_data.Volume_cm3 >= 0
        /\ quote_data.Weight >= 0

(* -------------------------------- C3 ---------------------------------- *)

\* C3: a document that contains the name of a case in any letter case, and
\* no earlier case name, yields the record of that case.
C3_MatchInAnyCase ==
    TextExtracted =>
        \A i \in CaseIndex :
            ( /\ ContainsAnyCase(CaseNames[i], CurrentText)
              /\ \A j \in 1..(i - 1) :
                    ~ContainsAnyCase(CaseNames[j], CurrentText) )
            => quote_data = CaseQuote(i)

(* -------------------------------- C4 ---------------------------------- *)

\* C4: when the processing of an upload has ended, no temporary file made
\* for the importer is left on disk.
C4_NoTemporaryFileRemains == tmp_files = 0

(* -------------------------------- C5 ---------------------------------- *)

\* C5: a failure while processing an upload, on the PDF path or on the 3D
\* path, never leaves the run as an unhandled exception and is reported by
\* a status message.
C5_EveryFailureCaught ==
    /\ ~unhandled
    /\ PdfFailed => \E m \in messages : m # "Parsing PDF Document..."
    /\ StepFailed => "Error processing STEP file" \in messages

(* -------------------------------- C6 ---------------------------------- *)

\* C6: 'pdf' is routed to the text matcher, 'stl', 'step' and 'stp' to the
\* geometry analyzer, anything else to the unsupported-format status with
\* no processing and no quote.
C6_RouteByExtension ==
    HasFile =>
        IF CurrentExt = ext_pdf THEN route = "text"
        ELSE IF CurrentExt \in {ext_stl, ext_step, ext_stp}
             THEN route = "geometry"
        ELSE /\ route = "none"
             /\ quote_data = EmptyQuote
             /\ messages # {}

(* -------------------------------- C7 ---------------------------------- *)

\* C7: the total of a displayed quote is unit price * quantity for
\* quantities 1..10 and unit price * quantity * 0.90 for quantities above
\* 10, and the discount notice is shown exactly in the second case.
C7_DiscountAboveTen ==
    panel =>
        IF qty > 10
        THEN /\ 10 * final_price = 9 * (quote_data.Price * qty * 10)
             /\ Discounted
        ELSE /\ qty >= 1
             /\ final_price = quote_data.Price * qty * 10
             /\ ~Discounted

\* Quotes priced at the boundary (10 pieces) and just above it (11).
C7_Witness ==
    /\ panel
    /\ qty \in {10, 11}
    /\ quote_data.Price = 309520
    /\ final_price \in {30952000, 30642480}

(* -------------------------------- C8 ---------------------------------- *)

\* C8: a document whose text contains none of the case names leaves the
\* quote record empty, shows the "no historical match" status, shows no
\* quote panel and no price, and raises nothing.
C8_NoMatchNoQuote ==
    ( /\ TextExtracted
      /\ \A i \in CaseIndex : ~Contains(CaseNames[i], CurrentText) )
    => /\ quote_data = EmptyQuote
       /\ "No historical match found." \in messages
       /\ "Reconhecimento Historico" \notin messages
       /\ ~panel
       /\ final_price = 0
       /\ ~unhandled

\* A document with text, none of it a case name, was processed.
C8_Witness ==
    /\ TextExtracted
    /\ Len(CurrentText) > 0
    /\ \A i \in CaseIndex : ~Contains(CaseNames[i], CurrentText)
    /\ "No historical match found." \in messages

(* -------------------------------- C9 ---------------------------------- *)

\* The current upload was processed up to the assignment of its own quote.
ProducesQuote ==
    /\ HasFile
    /\ \/ /\ CurrentExt = ext_pdf
          /\ uploaded_file.pdf_fault = "none"
          /\ \E i \in CaseIndex : Contains(CaseNames[i], CurrentText)
       \/ /\ CurrentExt \in {ext_step, ext_stp}
          /\ cq
          /\ uploaded_file.fault \notin {"write", "import", "volume"}

\* C9: the quote record shown is that of the current upload alone: empty
\* when there is no file or the upload is unsupported, unmatched or failed
\* before its quote was made; otherwise the record of a case named in the
\* current document, or the reference, weight and price computed from the
\* current solid.  Earlier uploads neither show through nor stop it.
C9_QuoteOfCurrentUploadOnly ==
    /\ ~ProducesQuote => quote_data = EmptyQuote /\ ~panel
    /\ ProducesQuote =>
        /\ quote_data # EmptyQuote
        /\ panel
        /\ IF CurrentExt = ext_pdf
           THEN \E i \in CaseIndex :
                    /\ Contains(CaseNames[i], CurrentText)
                    /\ quote_data = CaseQuote(i)
           ELSE /\ quote_data.Ref = uploaded_file.name
                /\ quote_data.Weight * 100 = uploaded_file.vol * 785
                /\ quote_data.Price = price(uploaded_file.vol)

\* A matched document is quoted although an earlier STEP upload failed
\* (its temporary file is still on disk).
C9_Witness ==
    /\ tmp_files > 0
    /\ TextExtracted
    /\ quote_data = CaseQuote(3)
    /\ panel

(* -------------------------------- C10 --------------------------------- *)

\* C10: whenever the "Error processing STEP file" status is shown, the
\* quote record is empty and no quote panel or final price is shown.
C10_ErrorMeansNoQuote ==
    "Error processing STEP file" \in messages =>
        /\ quote_data = EmptyQuote
        /\ ~panel
        /\ final_price = 0

====
